---- MODULE Spec2Model ----
(***************************************************************************)
(* Order entry (CPOE) and clinical decision support (CDS) of the hospital  *)
(* backend: the order-creation route, the order lifecycle routes, the CDS  *)
(* engine and its endpoint, and the order-creation service.                *)
(*                                                                         *)
(* Text is a sequence of one-character strings, so that str.lower() and    *)
(* the Python substring test `a in b` are computed, not assumed.           *)
(* A raised Python exception is an outcome of its own (raised = TRUE).     *)
(***************************************************************************)
EXTENDS Integers, Sequences, FiniteSets, TLC

VARIABLES orders, allergies, meds, rules, req, response, svc, txn

vars == <<orders, allergies, meds, rules, req, response, svc, txn>>

\* ------------------------------------------------------------------ bounds
MaxOrders == 2

\* ------------------------------------------------------------ text helpers
None == "None"

Upper == <<"A","B","C","D","E","F","G","H","I","J","K","L","M",
           "N","O","P","Q","R","S","T","U","V","W","X","Y","Z">>

LowerAlpha == <<"a","b","c","d","e","f","g","h","i","j","k","l","m",
           "n","o","p","q","r","s","t","u","v","w","x","y","z">>

Chars == {Upper[i] : i \in 1..Len(Upper)} \cup {LowerAlpha[i] : i \in 1..Len(LowerAlpha)}

\* str.lower() on one character
LowerChar ==
  [c \in Chars |->
     IF \E i \in 1..Len(Upper) : Upper[i] = c
     THEN LowerAlpha[CHOOSE i \in 1..Len(Upper) : Upper[i] = c]
     ELSE c]

\* str.lower()
lower(s) == [i \in 1..Len(s) |-> LowerChar[s[i]]]

\* Python `a in b` on two strings: a occurs in b as a contiguous substring
\* (the empty string occurs in every string).
StrIn(a, b) ==
  \E k \in 0..(Len(b) - Len(a)) : \A i \in 1..Len(a) : b[k + i] = a[i]

\* ------------------------------------------------------------------ people
Patients == {"p1", "p2"}

UnknownPatient == "p9"

Users == {"u1"}

\* datetime.utcnow() readings
Times == {"t1"}

\* ----------------------------------------------------------------- catalog
\* The columns the OrderableItem model declares.
OrderableItemColumns ==
  {"id", "item_type", "name", "generic_name", "code", "is_active", "parent_id"}

\* generic_name is nullable: <<>> stands for both None and "" (both falsy).
Catalog ==
  [ i1 |-> [id |-> "i1", item_type |-> "Medication",
            name |-> <<"A","m","o","x","P","e","n">>,
            generic_name |-> <<"C","i","l","l","i","n">>],
    i2 |-> [id |-> "i2", item_type |-> "Medication",
            name |-> <<"A","s","p">>,
            generic_name |-> <<>>],
    i3 |-> [id |-> "i3", item_type |-> "LabTest",
            name |-> <<"P","e","n">>,
            generic_name |-> <<>>],
    i4 |-> [id |-> "i4", item_type |-> "Medication",
            name |-> <<"W","a","r">>,
            generic_name |-> <<>>],
    i5 |-> [id |-> "i5", item_type |-> "Medication",
            name |-> <<"A","s","p","T">>,
            generic_name |-> <<"A","s","p">>] ]

ItemIds == DOMAIN Catalog

UnknownItem == "i9"

\* What a lookup returns for an id that names no row (Python None).
NoItem == [id |-> None, item_type |-> None, name |-> <<>>, generic_name |-> <<>>]

\* A lookup falling back to a catalog row when the id names none.
LookupItem_orDefault(iid) == IF iid \in ItemIds THEN Catalog[iid] ELSE Catalog["i3"]

\* OrderableItem.query.get(id)
LookupItem(iid) == IF iid \in ItemIds THEN Catalog[iid] ELSE NoItem

\* The allergy records the chart may come to hold.
AllergyPool ==
  { [patient_id |-> "p1", allergen_name |-> <<"P","e","n">>, is_active |-> TRUE],
    [patient_id |-> "p1", allergen_name |-> <<"A","M","O","X","P","E","N">>,
     is_active |-> TRUE] }

\* ---------------------------------------------------------------- JSON data
JNull == [json_null |-> TRUE]

JNum(n) == [num |-> n]

JStr(s) == [str |-> s]

\* A JSON object is a record of its keys.  dict.get(key) defaults to None;
\* on a value that is not an object it raises AttributeError, which callers
\* test with IsDict first.
IsDict(d) == DOMAIN d \cap {"json_null", "num", "str"} = {}

DictGet(d, k) == IF k \in DOMAIN d THEN d[k] ELSE JNull

\* ------------------------------------------------------------ call outcomes
Ret(a) == [raised |-> FALSE, alerts |-> a]

Raise == [raised |-> TRUE, alerts |-> <<>>]

Alert(type, msg, sev) == [type |-> type, message |-> msg, severity |-> sev]

\* The gate reading only the first alert of the list.
HasCritical_firstOnly(alerts) == alerts # <<>> /\ alerts[1].severity = "Critical"

\* any(alert['severity'] == 'Critical' for alert in alerts)
HasCritical(alerts) == \E i \in 1..Len(alerts) : alerts[i].severity = "Critical"

\* The duplicate filter selecting orders awaiting signature.
ActiveOrderFor_pending(o, pid, iid) ==
  o.patient_id = pid /\ o.orderable_item_id = iid /\ o.status = "PendingSignature"

\* The duplicate filter without the status test.
ActiveOrderFor_anyStatus(o, pid, iid) ==
  o.patient_id = pid /\ o.orderable_item_id = iid

\* The duplicate filter without the patient test.
ActiveOrderFor_anyPatient(o, pid, iid) ==
  o.orderable_item_id = iid /\ o.status = "Active"

\* filter_by(patient_id=..., orderable_item_id=..., status='Active')
ActiveOrderFor(o, pid, iid) ==
  o.patient_id = pid /\ o.orderable_item_id = iid /\ o.status = "Active"

\* Order.query.filter_by(...).first(): the order's id (its row position), or
\* 0 for None.
FirstActiveOrder(os, pid, iid) ==
  IF \E k \in 1..Len(os) : ActiveOrderFor(os[k], pid, iid)
  THEN CHOOSE k \in 1..Len(os) :
         /\ ActiveOrderFor(os[k], pid, iid)
         /\ \A j \in 1..(k - 1) : ~ActiveOrderFor(os[j], pid, iid)
  ELSE 0

\* ---------------------------------------------------------------- CDS engine
_check_for_duplicate_orders(os, pid, item) ==
  IF FirstActiveOrder(os, pid, item.id) # 0
  THEN Ret(<<Alert("DUPLICATE_ORDER", <<"engine_duplicate", item.name>>, "Warning")>>)
  ELSE Ret(<<>>)

\* PatientAllergy.query.filter_by(patient_id=..., is_active=True).all()
ActiveAllergies(al, pid) == {a \in al : a.patient_id = pid /\ a.is_active}

\* The engine tests the allergen inside the item's name only.
EngineAllergyMatch(a, item) == StrIn(lower(a.allergen_name), lower(item.name))

\* An allergy check reporting every matching record.
_check_for_allergies_perRecord(al, pid, item) ==
  IF item.item_type # "Medication" THEN Ret(<<>>)
  ELSE Ret([k \in 1..Cardinality({a \in ActiveAllergies(al, pid) : EngineAllergyMatch(a, item)})
              |-> Alert("ALLERGY_ALERT", <<"engine_allergy", item.name>>, "Critical")])

_check_for_allergies(al, pid, item) ==
  IF item.item_type # "Medication" THEN Ret(<<>>)
  ELSE IF \E a \in ActiveAllergies(al, pid) : EngineAllergyMatch(a, item)
       THEN Ret(<<Alert("ALLERGY_ALERT", <<"engine_allergy", item.name>>, "Critical")>>)
       ELSE Ret(<<>>)

\* CDSRule.query.filter_by(rule_type='DrugInteraction', is_active=True).first()
FirstInteractionRule(rs) ==
  IF \E k \in 1..Len(rs) : rs[k].rule_type = "DrugInteraction" /\ rs[k].is_active
  THEN CHOOSE k \in 1..Len(rs) :
         /\ rs[k].rule_type = "DrugInteraction" /\ rs[k].is_active
         /\ \A j \in 1..(k - 1) : ~(rs[j].rule_type = "DrugInteraction" /\ rs[j].is_active)
  ELSE 0

\* The medication query without the status test.
ActiveMedNames_anyStatus(ms, pid) ==
  { lower(Catalog[m.orderable_item_id].name) :
      m \in { x \in ms : /\ x.patient_id = pid
                         /\ x.type = "INPATIENT_ACTIVE"
                         /\ x.orderable_item_id \in ItemIds } }

\* Names of the patient's Active INPATIENT_ACTIVE medications that join to a
\* catalog item, lowercased.
ActiveMedNames(ms, pid) ==
  { lower(Catalog[m.orderable_item_id].name) :
      m \in { x \in ms : /\ x.patient_id = pid
                         /\ x.status = "Active"
                         /\ x.type = "INPATIENT_ACTIVE"
                         /\ x.orderable_item_id \in ItemIds } }

InteractionPairMatch(newname, pair, names) ==
  \/ (StrIn(newname, pair[1]) /\ pair[2] \in names)
  \/ (StrIn(newname, pair[2]) /\ pair[1] \in names)

_check_drug_drug_interactions(rs, ms, pid, item) ==
  IF item.item_type # "Medication" THEN Ret(<<>>)
  ELSE IF FirstInteractionRule(rs) = 0 THEN Ret(<<>>)
  ELSE LET rule  == rs[FirstInteractionRule(rs)]
           names == ActiveMedNames(ms, pid)
           pairs == rule.interactions
       IN IF \E k \in 1..Len(pairs) : InteractionPairMatch(lower(item.name), pairs[k], names)
          THEN Ret(<<Alert("DRUG_INTERACTION", <<"engine_interaction", item.name>>, "Warning")>>)
          ELSE Ret(<<>>)

\* Python truth of a JSON value: None, 0 and "" are falsy.
Truthy(x) ==
  IF "num" \in DOMAIN x THEN x.num # 0
  ELSE IF "str" \in DOMAIN x THEN x.str # <<>>
  ELSE "json_null" \notin DOMAIN x

\* float(x): a JSON number converts, None or non-numeric text raises.
FloatOk(x) == "num" \in DOMAIN x

\* Reading a column the model class does not declare raises AttributeError.
HasAttr(col) == col \in OrderableItemColumns

_check_dose_range(item, order_details) ==
  IF item.item_type # "Medication" THEN Ret(<<>>)
  ELSE IF ~HasAttr("max_dose") THEN Raise
  ELSE IF item.max_dose = 0 THEN Ret(<<>>)
  ELSE IF ~IsDict(order_details) \/ ~FloatOk(DictGet(order_details, "dose"))
       THEN Ret(<<>>)
  ELSE LET dose == DictGet(order_details, "dose").num
           unit == DictGet(order_details, "unit")
       IN IF Truthy(unit) /\ item.default_dose_unit # <<>> /\ "str" \notin DOMAIN unit
          THEN Raise
          ELSE IF /\ Truthy(unit)
                  /\ item.default_dose_unit # <<>>
                  /\ lower(unit.str) # lower(item.default_dose_unit)
          THEN Ret(<<Alert("DOSE_UNIT_MISMATCH", <<"engine_unit", item.name>>, "Warning")>>)
          ELSE IF ~(item.min_dose <= dose /\ dose <= item.max_dose)
               THEN Ret(<<Alert("DOSE_RANGE_ALERT", <<"engine_range", item.name>>, "Warning")>>)
               ELSE Ret(<<>>)

\* alerts.extend(...) four times: an exception in any check leaves the call
\* without a return value.
execute_cds_checks(os, al, rs, ms, pid, item, order_details) ==
  LET d == _check_for_duplicate_orders(os, pid, item)
      a == _check_for_allergies(al, pid, item)
      i == _check_drug_drug_interactions(rs, ms, pid, item)
      r == _check_dose_range(item, order_details)
  IN IF d.raised \/ a.raised \/ i.raised \/ r.raised THEN Raise
     ELSE Ret(d.alerts \o a.alerts \o i.alerts \o r.alerts)

\* ------------------------------------------------------------------ requests
\* order_details payloads a client sends
DetailInputs ==
  { JNull, [dose |-> JNum(50), unit |-> JStr(<<"m","g">>)] }

\* order_details payloads for the dose check: dose and unit present, absent,
\* or of another JSON type
DoseDetailInputs ==
  { [dose |-> JNum(700), unit |-> JStr(<<"g">>)],
    [dose |-> JNum(700), unit |-> JStr(<<"m","g">>)],
    [dose |-> JNum(81),  unit |-> JStr(<<"M","G">>)],
    [unit |-> JStr(<<"m","g">>)],
    [dose |-> JStr(<<"a","b","c">>), unit |-> JStr(<<"m","g">>)],
    [dose |-> JNum(100)],
    [dose |-> JNum(100), unit |-> JNum(5)] }

\* Bodies of POST /patients/<id>/orders that pass the required-keys test and
\* name a catalog item
ValidBodies ==
  { [orderable_item_id |-> "i1", order_details |-> JNull],
    [orderable_item_id |-> "i3",
     order_details |-> [dose |-> JNum(50), unit |-> JStr(<<"m","g">>)],
     priority |-> "Stat"] }

\* Bodies that are absent, lack a required key or name no catalog item
RejectBodies ==
  { JNull,
    [order_details |-> JNull],
    [orderable_item_id |-> "i1"],
    [orderable_item_id |-> UnknownItem, order_details |-> JNull] }

CreateBodies == ValidBodies \cup RejectBodies

\* request.get_json() of POST /orders/<id>/discontinue
DiscontinueBodies == { JNull, [reason |-> "r1"], [reason |-> ""] }

\* The worker threads that serve requests
Workers == {"w1", "w2"}

\* What a worker holds of the request it serves: the handler and its
\* position, the caller's inputs, the row count and alerts it read, and the
\* status code it answered with.
Txn(op, pc, pid, uid, data, oid, now, seen, alerts, code) ==
  [op |-> op, pc |-> pc, patient_id |-> pid, user_id |-> uid, data |-> data,
   order_id |-> oid, now |-> now, seen |-> seen, alerts |-> alerts,
   storage_ok |-> TRUE, code |-> code]

\* A worker with no request in progress
Idle == Txn("none", "idle", None, None, JNull, 0, None, 0, <<>>, 0)

\* The request being answered: the operation and what the caller passed.
Req(op, pid, uid, data, oid) ==
  [op |-> op, patient_id |-> pid, user_id |-> uid, data |-> data, order_id |-> oid]

NoRequest == Req("none", None, None, JNull, 0)

NoResponse ==
  [op |-> "none", code |-> 0, message |-> "", alerts_key |-> "none",
   alerts |-> <<>>, order_id |-> 0]

Resp(op, code, message) ==
  [op |-> op, code |-> code, message |-> message, alerts_key |-> "none",
   alerts |-> <<>>, order_id |-> 0]

NoSvc ==
  [called |-> FALSE, raised |-> FALSE, order |-> <<>>, alerts_none |-> TRUE,
   alerts |-> <<>>, error_message |-> "", status_code |-> 0]

\* Order(...) without the status argument: the column default applies.
NewOrder_columnDefault(pid, iid, details, priority, uid) ==
  [patient_id |-> pid, orderable_item_id |-> iid, order_details |-> details,
   priority |-> priority, status |-> "Draft",
   ordering_physician_id |-> uid,
   signed_at |-> None, signed_by_user_id |-> None,
   discontinued_at |-> None, discontinued_by_user_id |-> None,
   discontinuation_reason |-> None]

\* Order(...) as both creation paths build it; unset columns are None.
NewOrder(pid, iid, details, priority, uid) ==
  [patient_id |-> pid, orderable_item_id |-> iid, order_details |-> details,
   priority |-> priority, status |-> "PendingSignature",
   ordering_physician_id |-> uid,
   signed_at |-> None, signed_by_user_id |-> None,
   discontinued_at |-> None, discontinued_by_user_id |-> None,
   discontinuation_reason |-> None]

\* The priority of the request ignored.
PriorityOf_alwaysRoutine(data) == "Routine"

\* data.get('priority', 'Routine')
PriorityOf(data) == IF "priority" \in DOMAIN data THEN data.priority ELSE "Routine"

\* ------------------------------------------------- POST /patients/<id>/orders
\* The allergy test of the route: the item's name, or its generic name when
\* set, inside the allergen name.
RouteAllergyMatch(a, item) ==
  \/ StrIn(lower(item.name), lower(a.allergen_name))
  \/ (item.generic_name # <<>>
      /\ StrIn(lower(item.generic_name), lower(a.allergen_name)))

\* An allergy test run for items of every type.
AllergyChecked_always(item) == TRUE

\* if item.item_type == 'Medication'
AllergyChecked(item) == item.item_type = "Medication"

\* The alert list the route builds inline.
RouteAlerts(os, al, pid, item) ==
  LET existing == FirstActiveOrder(os, pid, item.id)
      dup == IF existing # 0
             THEN <<Alert("DUPLICATE_ORDER", <<"route_duplicate", item.name, existing>>,
                          "Warning")>>
             ELSE <<>>
      alg == IF AllergyChecked(item)
                /\ \E a \in ActiveAllergies(al, pid) : RouteAllergyMatch(a, item)
             THEN <<Alert("ALLERGY_ALERT", <<"route_allergy", item.name>>, "Critical")>>
             ELSE <<>>
  IN dup \o alg

BlockedMessage == "Order blocked by critical CDS alert(s)."

\* A rollback that leaves the pending row in the table.
rollback_keepsPending(os, pending) == Append(os, pending)

\* A rollback that also discards the last committed row.
rollback_dropsLast(os, pending) == SubSeq(os, 1, Len(os) - 1)

\* db.session.rollback(): the pending Order is discarded, the table keeps
\* its committed rows.
rollback(os, pending) == os

\* A unique constraint on (patient_id, orderable_item_id) among the orders
\* that are not Discontinued.
InsertAllowed_uniquePair(os, o) ==
  ~\E k \in 1..Len(os) :
      /\ os[k].patient_id = o.patient_id
      /\ os[k].orderable_item_id = o.orderable_item_id
      /\ os[k].status # "Discontinued"

\* The orders table declares a primary key on id and foreign keys only: an
\* insert is not refused because of the rows already stored.
InsertAllowed(os, o) == TRUE

RequiredKeysMessage == "orderable_item_id and order_details are required"

\* A body test that asks for a priority as well.
HasRequiredKeys_withPriority(data) ==
  /\ IsDict(data)
  /\ {"orderable_item_id", "order_details", "priority"} \subseteq DOMAIN data

\* not (not data or not all(k in data for k in [...])): a body that is absent
\* or an empty object fails the test.
HasRequiredKeys(data) ==
  /\ IsDict(data)
  /\ {"orderable_item_id", "order_details"} \subseteq DOMAIN data

create_order(pid, uid, data, commit_ok) ==
  /\ req' = Req("create_order", pid, uid, data, 0)
  /\ svc' = NoSvc /\ UNCHANGED <<allergies, meds, rules>>
  /\ IF ~HasRequiredKeys(data)
     THEN /\ response' = Resp("create_order", 400, RequiredKeysMessage)
          /\ UNCHANGED orders
     ELSE IF pid \notin Patients
     THEN /\ response' = Resp("create_order", 404, "Not Found")
          /\ UNCHANGED orders
     ELSE IF LookupItem(data.orderable_item_id) = NoItem
     THEN /\ response' = Resp("create_order", 404, "Orderable item not found")
          /\ UNCHANGED orders
     ELSE LET item   == LookupItem(data.orderable_item_id)
              alerts == RouteAlerts(orders, allergies, pid, item)
          IN IF HasCritical(alerts)
             THEN /\ response' = [Resp("create_order", 400, BlockedMessage)
                                    EXCEPT !.alerts_key = "cds_alerts",
                                           !.alerts = alerts]
                  /\ UNCHANGED orders
             ELSE IF commit_ok /\ InsertAllowed(orders, NewOrder(pid, item.id,
                                              data.order_details, PriorityOf(data), uid))
             THEN /\ orders' = Append(orders,
                                 NewOrder(pid, item.id, data.order_details,
                                          PriorityOf(data), uid))
                  /\ response' = [Resp("create_order", 201,
                                       "Order created successfully and is pending signature.")
                                    EXCEPT !.order_id = Len(orders) + 1,
                                           !.alerts_key = IF alerts # <<>>
                                                          THEN "cds_warnings" ELSE "none",
                                           !.alerts = alerts]
             ELSE /\ response' = Resp("create_order", 500, "error creating order")
                  /\ orders' = rollback(orders, NewOrder(pid, item.id, data.order_details,
                                                         PriorityOf(data), uid))

\* ------------------------------------------------------ POST /orders/<id>/sign
\* The sign guard refusing only orders that are already Active.
CanSign_notActive(o) == o.status # "Active"

\* The sign guard refusing only Discontinued orders.
CanSign_notDiscontinued(o) == o.status # "Discontinued"

\* A sign guard that accepts every order.
CanSign_always(o) == TRUE

\* order.status != 'PendingSignature' rejects
CanSign(o) == o.status = "PendingSignature"

sign_order(oid, uid, now, commit_ok) ==
  /\ req' = Req("sign_order", None, uid, JNull, oid)
  /\ svc' = NoSvc /\ UNCHANGED <<allergies, meds, rules>>
  /\ IF oid \notin 1..Len(orders)
     THEN /\ response' = Resp("sign_order", 404, "Not Found")
          /\ UNCHANGED orders
     ELSE IF ~CanSign(orders[oid])
     THEN /\ response' = Resp("sign_order", 400,
                 "Only orders with status 'PendingSignature' can be signed.")
          /\ UNCHANGED orders
     ELSE IF commit_ok
     THEN /\ orders' = [orders EXCEPT ![oid].status = "Active",
                                      ![oid].signed_at = now,
                                      ![oid].signed_by_user_id = uid]
          /\ response' = [Resp("sign_order", 200, "Order signed successfully.")
                            EXCEPT !.order_id = oid]
     ELSE /\ response' = Resp("sign_order", 500, "Error signing order.")
          /\ UNCHANGED orders

\* ----------------------------------------------- POST /orders/<id>/discontinue
\* order.status not in ['Active', 'PendingSignature'] rejects
CanDiscontinue(o) == o.status \in {"Active", "PendingSignature"}

\* A discontinuation that stores the reason as sent, absent or not.
ReasonOf_noDefault(data) ==
  IF IsDict(data) /\ "reason" \in DOMAIN data THEN data.reason ELSE None

\* reason = data.get('reason') if data else None;
\* reason or 'Discontinued by physician order.'
ReasonOf(data) ==
  IF IsDict(data) /\ "reason" \in DOMAIN data /\ data.reason # ""
  THEN data.reason
  ELSE "Discontinued by physician order."

discontinue_order(oid, uid, now, data, commit_ok) ==
  /\ req' = Req("discontinue_order", None, uid, data, oid)
  /\ svc' = NoSvc /\ UNCHANGED <<allergies, meds, rules>>
  /\ IF oid \notin 1..Len(orders)
     THEN /\ response' = Resp("discontinue_order", 404, "Not Found")
          /\ UNCHANGED orders
     ELSE IF ~CanDiscontinue(orders[oid])
     THEN /\ response' = Resp("discontinue_order", 400,
                 "Only 'Active' or 'PendingSignature' orders can be discontinued.")
          /\ UNCHANGED orders
     ELSE IF orders[oid].status = "Discontinued"
     THEN /\ response' = Resp("discontinue_order", 400, "Order already discontinued.")
          /\ UNCHANGED orders
     ELSE IF commit_ok
     THEN LET reason == ReasonOf(data)
          IN /\ orders' = [orders EXCEPT
                    ![oid].status = "Discontinued",
                    ![oid].discontinued_at = now,
                    ![oid].discontinued_by_user_id = uid,
                    ![oid].discontinuation_reason = reason]
             /\ response' = [Resp("discontinue_order", 200, "Order discontinued.")
                               EXCEPT !.order_id = oid]
     ELSE /\ response' = Resp("discontinue_order", 500, "Error discontinuing order.")
          /\ UNCHANGED orders

\* ------------------------------------------------------ POST /cds/execute-checks
EmptyDict == <<>>

\* request.get_json() of the CDS endpoint
EvalBodies ==
  {JNull}
  \cup { [patient_id |-> "p1"] }
  \cup { [patient_id |-> "p1", orderable_item_id |-> i] : i \in ItemIds }
  \cup { [patient_id |-> "p2", orderable_item_id |-> "i2"] }
  \cup { [patient_id |-> UnknownPatient, orderable_item_id |-> "i1"],
         [patient_id |-> "p1", orderable_item_id |-> UnknownItem] }
  \cup { [patient_id |-> "p1", orderable_item_id |-> "i1", order_details |-> d] :
           d \in DetailInputs }
  \cup { [patient_id |-> "p1", orderable_item_id |-> "i5", order_details |-> d] :
           d \in DoseDetailInputs }

\* An evaluation that signs the orders it reads.
SessionAfterEvaluation_signs(os) ==
  [k \in 1..Len(os) |->
     IF os[k].status = "PendingSignature" THEN [os[k] EXCEPT !.status = "Active"]
     ELSE os[k]]

\* An evaluation that discards the orders it reads.
SessionAfterEvaluation_clears(os) == <<>>

\* The orders table after an evaluation: the engine and its endpoint issue
\* queries only (no session.add, no commit).
SessionAfterEvaluation(os) == os

execute_checks_route(data) ==
  /\ req' = Req("execute_checks", None, None, data, 0)
  /\ svc' = NoSvc /\ UNCHANGED <<allergies, meds, rules>>
  /\ orders' = SessionAfterEvaluation(orders)
  /\ IF ~IsDict(data)
     THEN response' = Resp("execute_checks", 500, "Internal Server Error")
     ELSE IF ~({"patient_id", "orderable_item_id"} \subseteq DOMAIN data)
     THEN response' = Resp("execute_checks", 400,
                           "patient_id and orderable_item_id are required.")
     ELSE IF data.patient_id \notin Patients \/ data.orderable_item_id \notin ItemIds
     THEN response' = Resp("execute_checks", 404, "Not Found")
     ELSE LET details == IF "order_details" \in DOMAIN data
                         THEN data.order_details ELSE EmptyDict
              out == execute_cds_checks(orders, allergies, rules, meds,
                                        data.patient_id,
                                        Catalog[data.orderable_item_id], details)
          IN IF out.raised
             THEN response' = Resp("execute_checks", 500, "Internal Server Error")
             ELSE response' = [Resp("execute_checks", 200, "")
                                 EXCEPT !.alerts_key = "cds_alerts",
                                        !.alerts = out.alerts]

\* ------------------------------------------------- cpoe service create_new_order
\* The definition in force is the second one of the file.  It hands the whole
\* order_data to the engine and adds the new Order to the session; it does not
\* commit, and nothing in the package calls it, so the orders table keeps its
\* rows: the pending Order is part of the returned tuple only.
create_new_order_result(os, al, rs, ms, pid, uid, order_data) ==
  IF ~IsDict(order_data)
  THEN [NoSvc EXCEPT !.called = TRUE, !.raised = TRUE]
  ELSE LET iid == IF "orderable_item_id" \in DOMAIN order_data
                  THEN order_data.orderable_item_id ELSE None
       IN IF LookupItem(iid) = NoItem
          THEN [NoSvc EXCEPT !.called = TRUE,
                             !.error_message = "Orderable item not found",
                             !.status_code = 404]
          ELSE LET item == LookupItem(iid)
                   out  == execute_cds_checks(os, al, rs, ms, pid, item, order_data)
               IN IF out.raised
                  THEN [NoSvc EXCEPT !.called = TRUE, !.raised = TRUE]
                  ELSE IF HasCritical(out.alerts)
                  THEN [NoSvc EXCEPT !.called = TRUE, !.alerts_none = FALSE,
                                     !.alerts = out.alerts,
                                     !.error_message = BlockedMessage,
                                     !.status_code = 400]
                  ELSE [NoSvc EXCEPT !.called = TRUE, !.alerts_none = FALSE,
                                     !.alerts = out.alerts,
                                     !.order = <<NewOrder(pid, item.id,
                                                   DictGet(order_data, "order_details"),
                                                   PriorityOf(order_data), uid)>>]

create_new_order(pid, uid, order_data) ==
  /\ req' = Req("create_new_order", pid, uid, order_data, 0)
  /\ svc' = create_new_order_result(orders, allergies, rules, meds, pid, uid, order_data)
  /\ response' = NoResponse
  /\ UNCHANGED <<orders, allergies, meds, rules>>

\* ------------------------------------------------------------- chart records
\* A PatientAllergy row is written to the chart (no route of the package
\* writes one; the rows arrive from outside the order-entry code).
RecordAllergy(a) ==
  /\ a \notin allergies
  /\ allergies' = allergies \cup {a}
  /\ req' = NoRequest
  /\ response' = NoResponse
  /\ svc' = NoSvc
  /\ UNCHANGED <<orders, meds, rules>>

\* The DrugInteraction rule of the sample data.
SampleRules ==
  << [rule_type |-> "DrugInteraction", is_active |-> TRUE,
      interactions |-> << << <<"w","a","r">>, <<"a","s","p">> >> >>] >>

\* The rule tables the deployment may hold: the sample rule alone; a rule of
\* other drugs stored ahead of a rule declaring the pair in both orders; the
\* sample rule switched off; one rule declaring the pair in both orders.
RuleStores ==
  { SampleRules,
    << [rule_type |-> "DrugInteraction", is_active |-> TRUE,
        interactions |-> << << <<"l","i","s">>, <<"s","p","i">> >> >>],
       [rule_type |-> "DrugInteraction", is_active |-> TRUE,
        interactions |-> << << <<"w","a","r">>, <<"a","s","p">> >>,
                            << <<"a","s","p">>, <<"w","a","r">> >> >>] >>,
    << [rule_type |-> "DrugInteraction", is_active |-> FALSE,
        interactions |-> << << <<"w","a","r">>, <<"a","s","p">> >> >>] >>,
    << [rule_type |-> "DrugInteraction", is_active |-> TRUE,
        interactions |-> << << <<"w","a","r">>, <<"a","s","p">> >>,
                            << <<"a","s","p">>, <<"w","a","r">> >> >>] >> }

\* The medication list of the sample chart: an inpatient and a home
\* medication of p1, an inpatient medication of p2.
SampleMeds ==
  { [id |-> "m1", patient_id |-> "p1", orderable_item_id |-> "i4", status |-> "Active",
     type |-> "INPATIENT_ACTIVE"],
    [id |-> "m2", patient_id |-> "p1", orderable_item_id |-> "i2", status |-> "Active",
     type |-> "HOME_MED"],
    [id |-> "m3", patient_id |-> "p2", orderable_item_id |-> "i2", status |-> "Active",
     type |-> "INPATIENT_ACTIVE"] }

\* The allergy record on p2's chart from the start.
SampleAllergies ==
  { [patient_id |-> "p2", allergen_name |-> <<"P","e","n">>, is_active |-> TRUE] }

\* ------------------------------------------------- PUT /medications/<med_id>
UnknownMed == "m9"

\* request.get_json() of the medication update: a status, another field, an
\* empty object, no body
MedUpdateBodies ==
  { [status |-> "Held"], [status |-> "Discontinued"], [status |-> "Active"],
    [dose |-> "d1"], EmptyDict, JNull }

\* Only the status column of a medication is read by the CDS engine; the
\* other updateable columns are not part of the model.
update_patient_medication(med_id, data, commit_ok) ==
  /\ req' = Req("update_patient_medication", None, None,
                [med_id |-> med_id, body |-> data], 0)
  /\ svc' = NoSvc /\ UNCHANGED <<orders, allergies, rules>>
  /\ IF ~\E m \in meds : m.id = med_id
     THEN /\ response' = Resp("update_patient_medication", 404, "Not Found")
          /\ UNCHANGED meds
     ELSE IF ~IsDict(data) \/ data = EmptyDict
     THEN /\ response' = Resp("update_patient_medication", 400, "No update data provided")
          /\ UNCHANGED meds
     ELSE IF commit_ok
     THEN /\ meds' = { IF m.id = med_id /\ "status" \in DOMAIN data
                       THEN [m EXCEPT !.status = data.status] ELSE m : m \in meds }
          /\ response' = Resp("update_patient_medication", 200, "Medication record updated")
     ELSE /\ response' = Resp("update_patient_medication", 500,
                              "Error updating medication record.")
          /\ UNCHANGED meds

\* ------------------------------------------------------------- specification
Init ==
  /\ orders = <<>>
  /\ allergies = SampleAllergies
  /\ meds = SampleMeds
  /\ rules = SampleRules
  /\ req = NoRequest
  /\ response = NoResponse
  /\ svc = NoSvc
  /\ txn = [w \in Workers |-> Idle]

\* Patient ids and bodies of the order-placing requests
CreateInputs ==
  ({"p1"} \X CreateBodies)
  \cup {<<"p2", [orderable_item_id |-> "i1", order_details |-> JNull]>>}
  \cup {<<UnknownPatient, [orderable_item_id |-> "i1", order_details |-> JNull]>>}

CreateOrder ==
  \E pd \in CreateInputs, uid \in Users, commit_ok \in BOOLEAN :
    /\ Len(orders) < MaxOrders
    /\ create_order(pd[1], uid, pd[2], commit_ok)
    /\ UNCHANGED txn

SignOrder ==
  \E oid \in 1..(Len(orders) + 1), uid \in Users, now \in Times,
     commit_ok \in BOOLEAN :
    sign_order(oid, uid, now, commit_ok) /\ UNCHANGED txn

DiscontinueOrder ==
  \E oid \in 1..(Len(orders) + 1), uid \in Users, now \in Times,
     data \in DiscontinueBodies, commit_ok \in BOOLEAN :
    discontinue_order(oid, uid, now, data, commit_ok) /\ UNCHANGED txn

ExecuteChecks ==
  \E data \in EvalBodies : execute_checks_route(data) /\ UNCHANGED txn

CreateNewOrder ==
  \E pd \in CreateInputs, uid \in Users :
    /\ pd[1] \in Patients
    /\ create_new_order(pd[1], uid, pd[2])
    /\ UNCHANGED txn

AllergyRecorded == \E a \in AllergyPool : RecordAllergy(a) /\ UNCHANGED txn

Next ==
  \/ CreateOrder
  \/ SignOrder
  \/ DiscontinueOrder
  \/ ExecuteChecks
  \/ CreateNewOrder
  \/ AllergyRecorded

Spec == Init /\ [][Next]_vars

\* The chart and the rule table under evaluation: the rule table is any of
\* RuleStores, medications are updated, allergies recorded, items evaluated.
ChartInit ==
  /\ orders = <<>>
  /\ allergies = SampleAllergies
  /\ meds = SampleMeds
  /\ rules \in RuleStores
  /\ req = NoRequest
  /\ response = NoResponse
  /\ svc = NoSvc
  /\ txn = [w \in Workers |-> Idle]

\* Medication ids and bodies of the update requests
MedUpdateInputs ==
  ({"m1"} \X MedUpdateBodies)
  \cup { <<"m2", [status |-> "Discontinued"]>>, <<"m3", [status |-> "Held"]>>,
         <<UnknownMed, [status |-> "Held"]>> }

UpdateMedication ==
  \E mb \in MedUpdateInputs, commit_ok \in BOOLEAN :
    update_patient_medication(mb[1], mb[2], commit_ok) /\ UNCHANGED txn

ChartNext ==
  \/ ExecuteChecks
  \/ UpdateMedication
  \/ AllergyRecorded

ChartSpec == ChartInit /\ [][ChartNext]_vars

\* ------------------------------------------------- requests served in parallel
\* Each worker serves one request at a time in a session of its own: the
\* handler first reads (lookups, the duplicate and allergy queries, the
\* status guard), then commits; the other worker may run between the two.

\* The answer of worker w's handler, returned without a write.
Answered(t, code) == [t EXCEPT !.pc = "done", !.code = code]

\* create_order up to the construction of the Order: validation, lookups,
\* the duplicate and allergy queries and the Critical gate.
create_order_read(w, pid, uid, data) ==
  /\ txn[w].pc = "idle"
  /\ LET t == Txn("create_order", "commit", pid, uid, data, 0, None,
                  Len(orders), <<>>, 0)
     IN txn' = [txn EXCEPT ![w] =
          IF ~HasRequiredKeys(data) THEN Answered(t, 400)
          ELSE IF pid \notin Patients THEN Answered(t, 404)
          ELSE IF LookupItem(data.orderable_item_id) = NoItem THEN Answered(t, 404)
          ELSE LET alerts == RouteAlerts(orders, allergies, pid,
                                         LookupItem(data.orderable_item_id))
               IN IF HasCritical(alerts)
                  THEN Answered([t EXCEPT !.alerts = alerts], 400)
                  ELSE [t EXCEPT !.alerts = alerts]]
  /\ UNCHANGED <<orders, allergies, meds, rules, req, response, svc>>

\* db.session.add(order); db.session.commit() and the two except branches
create_order_commit(w, commit_ok) ==
  /\ txn[w].op = "create_order" /\ txn[w].pc = "commit"
  /\ LET t == txn[w]
         order == NewOrder(t.patient_id, t.data.orderable_item_id,
                           t.data.order_details, PriorityOf(t.data), t.user_id)
     IN IF commit_ok /\ InsertAllowed(orders, order)
        THEN /\ orders' = Append(orders, order)
             /\ txn' = [txn EXCEPT ![w] =
                          [Answered(t, 201) EXCEPT !.order_id = Len(orders) + 1,
                                                   !.storage_ok = commit_ok]]
        ELSE /\ orders' = rollback(orders, order)
             /\ txn' = [txn EXCEPT ![w] =
                          [Answered(t, 500) EXCEPT !.storage_ok = commit_ok]]
  /\ UNCHANGED <<allergies, meds, rules, req, response, svc>>

\* sign_order up to the commit: get_or_404 and the status guard on the row
\* as loaded; the three assignments stay in the worker's session.
sign_order_read(w, oid, uid, now) ==
  /\ txn[w].pc = "idle"
  /\ LET t == Txn("sign_order", "commit", None, uid, JNull, oid, now,
                  Len(orders), <<>>, 0)
     IN txn' = [txn EXCEPT ![w] =
          IF oid \notin 1..Len(orders) THEN Answered(t, 404)
          ELSE IF ~CanSign(orders[oid]) THEN Answered(t, 400)
          ELSE t]
  /\ UNCHANGED <<orders, allergies, meds, rules, req, response, svc>>

\* db.session.commit() of sign_order: the UPDATE sets the three columns the
\* handler assigned on the row with the order's id, whatever it holds now.
sign_order_commit(w, commit_ok) ==
  /\ txn[w].op = "sign_order" /\ txn[w].pc = "commit"
  /\ LET t == txn[w]
     IN IF commit_ok
        THEN /\ orders' = [orders EXCEPT ![t.order_id].status = "Active",
                                         ![t.order_id].signed_at = t.now,
                                         ![t.order_id].signed_by_user_id = t.user_id]
             /\ txn' = [txn EXCEPT ![w] = Answered(t, 200)]
        ELSE /\ UNCHANGED orders
             /\ txn' = [txn EXCEPT ![w] =
                          [Answered(t, 500) EXCEPT !.storage_ok = FALSE]]
  /\ UNCHANGED <<allergies, meds, rules, req, response, svc>>

\* discontinue_order up to the commit: get_or_404 and the two status guards
\* on the row as loaded.
discontinue_order_read(w, oid, uid, now, data) ==
  /\ txn[w].pc = "idle"
  /\ LET t == Txn("discontinue_order", "commit", None, uid, data, oid, now,
                  Len(orders), <<>>, 0)
     IN txn' = [txn EXCEPT ![w] =
          IF oid \notin 1..Len(orders) THEN Answered(t, 404)
          ELSE IF ~CanDiscontinue(orders[oid]) THEN Answered(t, 400)
          ELSE IF orders[oid].status = "Discontinued" THEN Answered(t, 400)
          ELSE t]
  /\ UNCHANGED <<orders, allergies, meds, rules, req, response, svc>>

\* db.session.commit() of discontinue_order: the UPDATE sets the four
\* columns the handler assigned.
discontinue_order_commit(w, commit_ok) ==
  /\ txn[w].op = "discontinue_order" /\ txn[w].pc = "commit"
  /\ LET t == txn[w]
     IN IF commit_ok
        THEN /\ orders' = [orders EXCEPT
                    ![t.order_id].status = "Discontinued",
                    ![t.order_id].discontinued_at = t.now,
                    ![t.order_id].discontinued_by_user_id = t.user_id,
                    ![t.order_id].discontinuation_reason = ReasonOf(t.data)]
             /\ txn' = [txn EXCEPT ![w] = Answered(t, 200)]
        ELSE /\ UNCHANGED orders
             /\ txn' = [txn EXCEPT ![w] =
                          [Answered(t, 500) EXCEPT !.storage_ok = FALSE]]
  /\ UNCHANGED <<allergies, meds, rules, req, response, svc>>

\* The response is sent and the worker takes the next request.
respond(w) ==
  /\ txn[w].pc = "done"
  /\ txn' = [txn EXCEPT ![w] = Idle]
  /\ UNCHANGED <<orders, allergies, meds, rules, req, response, svc>>

\* The inserts that workers have still to commit
PendingInserts ==
  Cardinality({w \in Workers : txn[w].op = "create_order" /\ txn[w].pc = "commit"})

\* Patient ids and bodies of the submissions served in parallel
RaceCreateInputs ==
  { <<"p1", [orderable_item_id |-> "i3", order_details |-> JNull]>>,
    <<"p2", [orderable_item_id |-> "i3", order_details |-> JNull]>>,
    <<"p1", JNull>> }

\* Bodies of the discontinue requests served in parallel
RaceDiscontinueBodies == { JNull, [reason |-> "r1"] }

ReadCreate ==
  \E w \in Workers, pd \in RaceCreateInputs, uid \in Users :
    /\ Len(orders) + PendingInserts < MaxOrders
    /\ create_order_read(w, pd[1], uid, pd[2])

CommitCreate ==
  \E w \in Workers, commit_ok \in BOOLEAN : create_order_commit(w, commit_ok)

ReadSign ==
  \E w \in Workers, oid \in 1..(Len(orders) + 1), uid \in Users, now \in Times :
    sign_order_read(w, oid, uid, now)

CommitSign ==
  \E w \in Workers, commit_ok \in BOOLEAN : sign_order_commit(w, commit_ok)

ReadDiscontinue ==
  \E w \in Workers, oid \in 1..(Len(orders) + 1), uid \in Users, now \in Times,
     data \in RaceDiscontinueBodies :
    discontinue_order_read(w, oid, uid, now, data)

CommitDiscontinue ==
  \E w \in Workers, commit_ok \in BOOLEAN : discontinue_order_commit(w, commit_ok)

Respond == \E w \in Workers : respond(w)

RaceNext ==
  \/ ReadCreate
  \/ CommitCreate
  \/ ReadSign
  \/ CommitSign
  \/ ReadDiscontinue
  \/ CommitDiscontinue
  \/ Respond

RaceSpec == Init /\ [][RaceNext]_vars

\* ==================================================================== claims
\* A well-formed order submission whose patient and orderable item exist.
IsSubmission(r) ==
  /\ r.op = "create_order"
  /\ IsDict(r.data)
  /\ {"orderable_item_id", "order_details"} \subseteq DOMAIN r.data
  /\ r.patient_id \in Patients
  /\ r.data.orderable_item_id \in ItemIds

\* Some order of the table is Active for the patient and the item.
ExistsActive(os, pid, iid) ==
  \E k \in 1..Len(os) :
    os[k].patient_id = pid /\ os[k].orderable_item_id = iid /\ os[k].status = "Active"

HasSeverity(alerts, sev) == \E i \in 1..Len(alerts) : alerts[i].severity = sev

HasAlert(alerts, type, sev) ==
  \E i \in 1..Len(alerts) : alerts[i].type = type /\ alerts[i].severity = sev

\* C1: a submission whose computed alert list holds a Critical alert creates
\* no Order (the orders are unchanged) and is answered 400 with the fixed
\* message and the whole alert list, the duplicate Warning included; the
\* service likewise returns no Order, the message and status 400.
C1_CriticalGate ==
  [][ /\ (req'.op = "create_order" /\ HasSeverity(response'.alerts, "Critical"))
         => /\ response'.code = 400
            /\ response'.message = "Order blocked by critical CDS alert(s)."
            /\ response'.alerts_key = "cds_alerts"
            /\ orders' = orders
            /\ (ExistsActive(orders, req'.patient_id, req'.data.orderable_item_id)
                  => HasAlert(response'.alerts, "DUPLICATE_ORDER", "Warning"))
      /\ (req'.op = "create_new_order" /\ HasSeverity(svc'.alerts, "Critical"))
         => /\ svc'.status_code = 400
            /\ svc'.error_message = "Order blocked by critical CDS alert(s)."
            /\ svc'.order = <<>>
            /\ orders' = orders
    ]_vars

C1_Witness ==
  /\ req.op = "create_order"
  /\ response.code = 400
  /\ HasAlert(response.alerts, "ALLERGY_ALERT", "Critical")
  /\ HasAlert(response.alerts, "DUPLICATE_ORDER", "Warning")

C3_DiscontinuedAbsorbing ==
  [][ \A k \in 1..Len(orders) :
        orders[k].status = "Discontinued"
          => (k <= Len(orders') /\ orders'[k].status = "Discontinued") ]_vars

C3_Witness ==
  /\ req.op = "sign_order" /\ response.code = 400
  /\ req.order_id \in 1..Len(orders)
  /\ orders[req.order_id].status = "Discontinued"

\* C4: a sign request on an order that is not PendingSignature, and a
\* discontinue request on an order that is neither Active nor
\* PendingSignature, is answered 400 and changes no order.
C4_IllegalTransitionRejected ==
  [][ /\ (req'.op = "sign_order" /\ req'.order_id \in 1..Len(orders)
            /\ orders[req'.order_id].status # "PendingSignature")
         => (response'.code = 400 /\ orders' = orders)
      /\ (req'.op = "discontinue_order" /\ req'.order_id \in 1..Len(orders)
            /\ orders[req'.order_id].status \notin {"Active", "PendingSignature"})
         => (response'.code = 400 /\ orders' = orders)
    ]_vars

C4_Witness ==
  /\ req.op = "discontinue_order" /\ response.code = 400
  /\ req.order_id \in 1..Len(orders)
  /\ orders[req.order_id].status = "Discontinued"
  /\ orders[req.order_id].signed_at # None

\* The allergen, lowercased, occurs in the item's name or generic name.
ClaimAllergyMatch(a, item) ==
  \/ StrIn(lower(a.allergen_name), lower(item.name))
  \/ (item.generic_name # <<>>
      /\ StrIn(lower(a.allergen_name), lower(item.generic_name)))

\* A well-formed evaluation request whose patient and item exist.
ValidEval(r) ==
  /\ r.op = "execute_checks"
  /\ IsDict(r.data)
  /\ {"patient_id", "orderable_item_id"} \subseteq DOMAIN r.data
  /\ r.data.patient_id \in Patients
  /\ r.data.orderable_item_id \in ItemIds

EvalDetails(r) ==
  IF "order_details" \in DOMAIN r.data THEN r.data.order_details ELSE EmptyDict

\* C5: whenever an active allergy record of the patient names an allergen
\* that occurs, case-insensitively, in a Medication item's name or generic
\* name, evaluating that item reports a Critical ALLERGY_ALERT and a
\* submission for it is blocked (400, the alert listed, no Order created).
\* A submission that ends in a failed commit (500) is left aside.
C5_AllergyBlocks ==
  [][ /\ (IsSubmission(req') /\ response'.code # 500
            /\ Catalog[req'.data.orderable_item_id].item_type = "Medication"
            /\ \E a \in allergies :
                 /\ a.patient_id = req'.patient_id /\ a.is_active
                 /\ ClaimAllergyMatch(a, Catalog[req'.data.orderable_item_id]))
         => /\ response'.code = 400
            /\ HasAlert(response'.alerts, "ALLERGY_ALERT", "Critical")
            /\ orders' = orders
      /\ (ValidEval(req')
            /\ Catalog[req'.data.orderable_item_id].item_type = "Medication"
            /\ \E a \in allergies :
                 /\ a.patient_id = req'.data.patient_id /\ a.is_active
                 /\ ClaimAllergyMatch(a, Catalog[req'.data.orderable_item_id]))
         => /\ response'.code = 200
            /\ HasAlert(response'.alerts, "ALLERGY_ALERT", "Critical")
    ]_vars

\* The last order of the table is a new PendingSignature order for the
\* request's patient and item, and the earlier rows are as they were.
OneOrderAppended(os, os2, r) ==
  /\ Len(os2) = Len(os) + 1
  /\ \A k \in 1..Len(os) : os2[k] = os[k]
  /\ os2[Len(os2)].patient_id = r.patient_id
  /\ os2[Len(os2)].orderable_item_id = r.data.orderable_item_id
  /\ os2[Len(os2)].status = "PendingSignature"

\* C6 as claimed: with an Active order on file for (P, I), a submission for
\* (P, I) reports a Warning DUPLICATE_ORDER alert and, when no alert is
\* Critical, creates a new PendingSignature order for (P, I) and returns the
\* duplicate alert as a warning.
C6_DuplicateWarnsOnly_Original ==
  [][ (IsSubmission(req')
         /\ ExistsActive(orders, req'.patient_id, req'.data.orderable_item_id))
      => /\ HasAlert(response'.alerts, "DUPLICATE_ORDER", "Warning")
         /\ ~HasSeverity(response'.alerts, "Critical")
              => /\ response'.code = 201
                 /\ response'.alerts_key = "cds_warnings"
                 /\ OneOrderAppended(orders, orders', req')
    ]_vars

\* C6 as amended: the same, unless the commit of the new order fails; then
\* the answer is 500 and the orders are unchanged.
C6_DuplicateWarnsOnly ==
  [][ (IsSubmission(req')
         /\ ExistsActive(orders, req'.patient_id, req'.data.orderable_item_id))
      => \/ (response'.code = 500 /\ orders' = orders)
         \/ /\ HasAlert(response'.alerts, "DUPLICATE_ORDER", "Warning")
            /\ ~HasSeverity(response'.alerts, "Critical")
                 => /\ response'.code = 201
                    /\ response'.alerts_key = "cds_warnings"
                    /\ OneOrderAppended(orders, orders', req')
    ]_vars

C6_Witness ==
  /\ IsSubmission(req)
  /\ response.code = 201
  /\ response.alerts_key = "cds_warnings"
  /\ HasAlert(response.alerts, "DUPLICATE_ORDER", "Warning")
  /\ orders[response.order_id].status = "PendingSignature"
  /\ \E k \in 1..Len(orders) :
       /\ k # response.order_id
       /\ orders[k].status = "Active"
       /\ orders[k].patient_id = req.patient_id
       /\ orders[k].orderable_item_id = req.data.orderable_item_id

\* The submission is answered 201 with the new order's id and the alert list,
\* and exactly one order was added: PendingSignature, for the request's
\* patient, item and user, with the request's order_details and priority.
CreatedAsSubmitted(os, os2, r, resp, alerts) ==
  /\ resp.code = 201
  /\ OneOrderAppended(os, os2, r)
  /\ os2[Len(os2)].ordering_physician_id = r.user_id
  /\ os2[Len(os2)].order_details = r.data.order_details
  /\ os2[Len(os2)].priority =
       (IF "priority" \in DOMAIN r.data THEN r.data.priority ELSE "Routine")
  /\ resp.order_id = Len(os2)
  /\ resp.alerts = alerts

\* C7 as claimed: a well-formed submission for an existing item whose alert
\* list holds no Critical alert persists exactly one new Order as submitted
\* and returns its id with the whole alert list.
C7_WarningsNeverBlock_Original ==
  [][ (IsSubmission(req')
         /\ ~HasSeverity(RouteAlerts(orders, allergies, req'.patient_id,
                                     Catalog[req'.data.orderable_item_id]),
                         "Critical"))
      => CreatedAsSubmitted(orders, orders', req', response',
                            RouteAlerts(orders, allergies, req'.patient_id,
                                        Catalog[req'.data.orderable_item_id]))
    ]_vars

\* C7 as amended: the same, unless the commit of the new order fails; then
\* the answer is 500 and no Order is persisted.
C7_WarningsNeverBlock ==
  [][ (IsSubmission(req')
         /\ ~HasSeverity(RouteAlerts(orders, allergies, req'.patient_id,
                                     Catalog[req'.data.orderable_item_id]),
                         "Critical"))
      => \/ (response'.code = 500 /\ response'.alerts = <<>> /\ orders' = orders)
         \/ CreatedAsSubmitted(orders, orders', req', response',
                               RouteAlerts(orders, allergies, req'.patient_id,
                                           Catalog[req'.data.orderable_item_id]))
    ]_vars

C7_Witness ==
  /\ IsSubmission(req)
  /\ response.code = 201
  /\ HasSeverity(response.alerts, "Warning")
  /\ orders[response.order_id].priority = "Stat"
  /\ orders[response.order_id].order_details # JNull
  /\ orders[response.order_id].ordering_physician_id = req.user_id

\* The type and severity of each alert, in order (the message text aside).
Kinds(alerts) == [i \in 1..Len(alerts) |-> <<alerts[i].type, alerts[i].severity>>]

\* The alerts the four checks of the engine return for a patient, an item and
\* a payload, concatenated in the engine's order; a check that raises
\* contributes none.
FourChecks(os, al, rs, ms, pid, item, details) ==
  _check_for_duplicate_orders(os, pid, item).alerts
    \o _check_for_allergies(al, pid, item).alerts
    \o _check_drug_drug_interactions(rs, ms, pid, item).alerts
    \o _check_dose_range(item, details).alerts

\* C8: the alerts a submission reports (cds_alerts when blocked, warnings when
\* created) are the alerts the engine's four checks return in that state for
\* the request's patient, item and order_details payload; the alerts the
\* service returns likewise.  Alerts are compared by type and severity.
C8_SubmissionUsesEvaluator ==
  [][ /\ (IsSubmission(req') /\ response'.code \in {201, 400})
         => Kinds(response'.alerts)
              = Kinds(FourChecks(orders, allergies, rules, meds, req'.patient_id,
                                 Catalog[req'.data.orderable_item_id],
                                 req'.data.order_details))
      /\ (req'.op = "create_new_order" /\ svc'.called /\ ~svc'.raised
            /\ ~svc'.alerts_none)
         => Kinds(svc'.alerts)
              = Kinds(FourChecks(orders, allergies, rules, meds, req'.patient_id,
                                 Catalog[req'.data.orderable_item_id],
                                 DictGet(req'.data, "order_details")))
    ]_vars

\* Some pair of an active DrugInteraction rule has one drug in the new item's
\* name and the other in the name of an active inpatient medication.
Interacts(rs, ms, pid, item) ==
  \E k \in 1..Len(rs) :
    /\ rs[k].rule_type = "DrugInteraction" /\ rs[k].is_active
    /\ \E j \in 1..Len(rs[k].interactions) :
         LET a == rs[k].interactions[j][1]
             b == rs[k].interactions[j][2]
             n == lower(item.name)
         IN \E m \in ActiveMedNames(ms, pid) :
              \/ (StrIn(a, n) \/ StrIn(n, a)) /\ (StrIn(b, m) \/ StrIn(m, b))
              \/ (StrIn(b, n) \/ StrIn(n, b)) /\ (StrIn(a, m) \/ StrIn(m, a))

\* The clean case: no Active order for the patient and item, no active allergy
\* of the patient matching the item (in either direction of containment), and
\* no interacting active inpatient medication.  No catalog item carries dose
\* bounds, so every dose lies inside them.
Clean(os, al, rs, ms, pid, item) ==
  /\ ~ExistsActive(os, pid, item.id)
  /\ \A a \in al :
       (a.patient_id = pid /\ a.is_active)
         => ~(ClaimAllergyMatch(a, item) \/ RouteAllergyMatch(a, item))
  /\ ~Interacts(rs, ms, pid, item)

\* C9: in the clean case the engine returns the empty list (the endpoint
\* answers 200 with no alerts) and a submission creates a PendingSignature
\* order with no warnings.  A submission that ends in a failed commit (500)
\* is left aside.
C9_CleanCasePasses ==
  [][ /\ (ValidEval(req')
            /\ Clean(orders, allergies, rules, meds, req'.data.patient_id,
                     Catalog[req'.data.orderable_item_id]))
         => (response'.code = 200 /\ response'.alerts = <<>>)
      /\ (IsSubmission(req') /\ response'.code # 500
            /\ Clean(orders, allergies, rules, meds, req'.patient_id,
                     Catalog[req'.data.orderable_item_id]))
         => /\ response'.code = 201 /\ response'.alerts = <<>>
            /\ OneOrderAppended(orders, orders', req')
    ]_vars

Rank(type) ==
  CASE type = "DUPLICATE_ORDER" -> 1
    [] type = "ALLERGY_ALERT" -> 2
    [] type = "DRUG_INTERACTION" -> 3
    [] OTHER -> 4

\* C10: every evaluation returns the outputs of the duplicate, allergy,
\* interaction and dose-range checks concatenated in that order: the list is
\* returned (200), its alert types are in that order, and it holds each
\* check's alerts, none dropped and none added.
C10_FixedCheckOrder ==
  [][ ValidEval(req')
      => LET pid  == req'.data.patient_id
             item == Catalog[req'.data.orderable_item_id]
             d == _check_for_duplicate_orders(orders, pid, item)
             a == _check_for_allergies(allergies, pid, item)
             i == _check_drug_drug_interactions(rules, meds, pid, item)
             r == _check_dose_range(item, EvalDetails(req'))
         IN /\ response'.code = 200
            /\ \A x, y \in 1..Len(response'.alerts) :
                 x < y => Rank(response'.alerts[x].type) <= Rank(response'.alerts[y].type)
            /\ response'.alerts = d.alerts \o a.alerts \o i.alerts \o r.alerts
    ]_vars

\* The dose bounds and unit the sample catalog states for the aspirin tablet
\* (min_dose 81, max_dose 650, default_dose_unit "mg").
SampleDoseRange ==
  [ i5 |-> [min_dose |-> 81, max_dose |-> 650, default_dose_unit |-> <<"m","g">>] ]

\* The payload carries a number as dose and text as unit.
Evaluable(details) ==
  /\ IsDict(details)
  /\ FloatOk(DictGet(details, "dose"))
  /\ "str" \in DOMAIN DictGet(details, "unit")

OutOfRange(dose, cfg) == dose < cfg.min_dose \/ dose > cfg.max_dose

CountType(alerts, type) == Cardinality({i \in 1..Len(alerts) : alerts[i].type = type})

\* An evaluation request for an item with stated dose bounds and a payload
\* that carries a numeric dose and a text unit.
DoseEval(r) ==
  /\ ValidEval(r)
  /\ r.data.orderable_item_id \in DOMAIN SampleDoseRange
  /\ Evaluable(EvalDetails(r))

\* C11: an evaluation whose unit differs, case-insensitively, from the item's
\* default unit and whose dose lies outside the item's bounds returns both a
\* Warning DOSE_UNIT_MISMATCH and a Warning DOSE_RANGE_ALERT.
C11_UnitMismatchKeepsRangeCheck ==
  DoseEval(req)
  => LET cfg == SampleDoseRange[req.data.orderable_item_id]
         d   == EvalDetails(req)
     IN (lower(d.unit.str) # lower(cfg.default_dose_unit) /\ OutOfRange(d.dose.num, cfg))
        => /\ response.code = 200
           /\ HasAlert(response.alerts, "DOSE_UNIT_MISMATCH", "Warning")
           /\ HasAlert(response.alerts, "DOSE_RANGE_ALERT", "Warning")

\* C12: an evaluation of a Medication item with stated dose bounds and a
\* matching unit returns exactly one Warning DOSE_RANGE_ALERT when the dose is
\* below the minimum or above the maximum, and none when it lies inside the
\* bounds, the bounds themselves included.
C12_InclusiveDoseBounds ==
  DoseEval(req)
  => LET cfg == SampleDoseRange[req.data.orderable_item_id]
         d   == EvalDetails(req)
     IN lower(d.unit.str) = lower(cfg.default_dose_unit)
        => /\ response.code = 200
           /\ CountType(response.alerts, "DOSE_RANGE_ALERT")
                = (IF OutOfRange(d.dose.num, cfg) THEN 1 ELSE 0)
           /\ \A i \in 1..Len(response.alerts) :
                response.alerts[i].type = "DOSE_RANGE_ALERT"
                  => response.alerts[i].severity = "Warning"

\* C13: when the payload has no numeric dose or no text unit (a missing or
\* null payload included), the evaluation completes (200) with no dose
\* alert, and the order-creation service returns without raising.
C13_UnevaluableDoseIsSilent ==
  /\ (ValidEval(req) /\ ~Evaluable(EvalDetails(req)))
     => /\ response.code = 200
        /\ CountType(response.alerts, "DOSE_RANGE_ALERT") = 0
        /\ CountType(response.alerts, "DOSE_UNIT_MISMATCH") = 0
  /\ (req.op = "create_new_order" /\ IsDict(req.data)
        /\ "orderable_item_id" \in DOMAIN req.data
        /\ req.data.orderable_item_id \in ItemIds
        /\ ~Evaluable(DictGet(req.data, "order_details")))
     => ~svc.raised

\* The active rules of type DrugInteraction.
ActiveInteractionRules(rs) ==
  {k \in 1..Len(rs) : rs[k].rule_type = "DrugInteraction" /\ rs[k].is_active}

\* A pair of the rule has one drug inside the new item's name and the other
\* inside the name of one of the patient's active inpatient medications.
RuleDeclaresInteraction(rule, ms, pid, item) ==
  \E j \in 1..Len(rule.interactions) :
    LET a == rule.interactions[j][1]
        b == rule.interactions[j][2]
        n == lower(item.name)
    IN \E m \in ActiveMedNames(ms, pid) :
         \/ (StrIn(a, n) /\ StrIn(b, m))
         \/ (StrIn(b, n) /\ StrIn(a, m))

\* C14: with one active DrugInteraction rule, an evaluation of a Medication
\* item whose name contains one drug of a declared pair, for a patient with
\* an active inpatient medication of the other drug, has the interaction
\* check yield exactly one alert, a Warning DRUG_INTERACTION.
C14_InteractionDetected ==
  (ValidEval(req) /\ Cardinality(ActiveInteractionRules(rules)) = 1)
  => LET pid  == req.data.patient_id
         item == Catalog[req.data.orderable_item_id]
         rule == rules[CHOOSE k \in ActiveInteractionRules(rules) : TRUE]
         out  == _check_drug_drug_interactions(rules, meds, pid, item)
     IN (item.item_type = "Medication" /\ RuleDeclaresInteraction(rule, meds, pid, item))
        => /\ ~out.raised
           /\ Len(out.alerts) = 1
           /\ HasAlert(out.alerts, "DRUG_INTERACTION", "Warning")

\* C15: an evaluation of a Medication item for which some active
\* DrugInteraction rule, the first stored or a later one, declares an
\* interacting pair (one that the pair test of the check itself accepts) has
\* the interaction check yield a DRUG_INTERACTION alert; when no rule of that
\* type is active, it yields none.
C15_AllActiveRulesUsed ==
  ValidEval(req)
  => LET pid   == req.data.patient_id
         item  == Catalog[req.data.orderable_item_id]
         names == ActiveMedNames(meds, pid)
         out   == _check_drug_drug_interactions(rules, meds, pid, item)
     IN /\ (item.item_type = "Medication"
              /\ \E k \in ActiveInteractionRules(rules) :
                   /\ RuleDeclaresInteraction(rules[k], meds, pid, item)
                   /\ \E j \in 1..Len(rules[k].interactions) :
                        InteractionPairMatch(lower(item.name), rules[k].interactions[j],
                                             names))
           => CountType(out.alerts, "DRUG_INTERACTION") >= 1
        /\ (ActiveInteractionRules(rules) = {})
           => CountType(out.alerts, "DRUG_INTERACTION") = 0

C18_EvaluateReadOnly ==
  [][ req'.op = "execute_checks"
      => /\ orders' = orders
         /\ allergies' = allergies
         /\ meds' = meds
         /\ rules' = rules
    ]_vars

\* An evaluation has returned alerts with orders, allergy records,
\* medications and rules on file.
C18_Witness ==
  /\ ValidEval(req)
  /\ response.code = 200
  /\ response.alerts # <<>>
  /\ Len(orders) = MaxOrders
  /\ Cardinality(allergies) > 1
  /\ meds # {}
  /\ rules # <<>>

\* C19: a submission with the required keys whose orderable_item_id names no
\* item is answered 404 with no alerts and leaves the orders unchanged; the
\* service returns no order, no alerts and status 404.
C19_UnknownItemNotFound ==
  [][ /\ (req'.op = "create_order" /\ HasRequiredKeys(req'.data)
            /\ req'.data.orderable_item_id \notin ItemIds)
         => /\ response'.code = 404
            /\ response'.alerts = <<>> /\ response'.alerts_key = "none"
            /\ orders' = orders
      /\ (req'.op = "create_new_order" /\ IsDict(req'.data)
            /\ ("orderable_item_id" \notin DOMAIN req'.data
                  \/ req'.data.orderable_item_id \notin ItemIds))
         => /\ svc'.status_code = 404
            /\ svc'.order = <<>> /\ svc'.alerts_none
            /\ orders' = orders
    ]_vars

\* A submission for an existing patient naming no catalog item was answered
\* "Orderable item not found" with orders on file.
C19_Witness ==
  /\ req.op = "create_order"
  /\ HasRequiredKeys(req.data)
  /\ req.patient_id \in Patients
  /\ req.data.orderable_item_id = UnknownItem
  /\ response.code = 404
  /\ response.message = "Orderable item not found"
  /\ Len(orders) > 0

\* C20: a submission whose body is absent or lacks orderable_item_id or
\* order_details is answered 400 with the required-keys message, no alerts,
\* and the orders unchanged; a submission whose body has both keys is not
\* answered with that rejection.
C20_MissingKeysRejected ==
  [][ req'.op = "create_order"
      => IF /\ IsDict(req'.data)
            /\ "orderable_item_id" \in DOMAIN req'.data
            /\ "order_details" \in DOMAIN req'.data
         THEN response'.message # RequiredKeysMessage
         ELSE /\ response'.code = 400
              /\ response'.message = RequiredKeysMessage
              /\ response'.alerts = <<>> /\ response'.alerts_key = "none"
              /\ orders' = orders
    ]_vars

\* A body without order_details was rejected with orders on file.
C20_Witness ==
  /\ req.op = "create_order"
  /\ IsDict(req.data)
  /\ "order_details" \notin DOMAIN req.data
  /\ response.code = 400
  /\ response.message = RequiredKeysMessage
  /\ Len(orders) > 0

\* C21: a submission answered 500 leaves the orders exactly as they were (the
\* order in progress is not visible), and the table gains a row only in a
\* step that is itself a submission answered 201: nothing submits again on
\* the caller's behalf.
C21_StorageFailureRollsBack ==
  [][ /\ (req'.op = "create_order" /\ response'.code = 500) => orders' = orders
      /\ Len(orders') > Len(orders)
           => (req'.op = "create_order" /\ response'.code = 201)
    ]_vars

\* A well-formed submission with no Critical alert failed on commit while an
\* order was on file, and the table still holds that order alone.
C21_Witness ==
  /\ IsSubmission(req)
  /\ response.code = 500
  /\ Len(orders) = 1
  /\ ~HasCritical(RouteAlerts(orders, allergies, req.patient_id,
                              Catalog[req.data.orderable_item_id]))

\* C23: every step changes the number of orders by one when it is a
\* submission answered 201, the new row being appended after the rows
\* already stored, and by nothing otherwise; a submission answered anything
\* else (400, 404, 500) leaves the orders exactly as they were.
C23_OneOrderPerSuccess ==
  [][ /\ (req'.op = "create_order" /\ response'.code = 201)
         => /\ Len(orders') = Len(orders) + 1
            /\ \A k \in 1..Len(orders) : orders'[k] = orders[k]
            /\ response'.order_id = Len(orders')
      /\ (req'.op = "create_order" /\ response'.code # 201)
         => /\ orders' = orders
            /\ response'.code \in {400, 404, 500}
      /\ req'.op # "create_order" => Len(orders') = Len(orders)
    ]_vars

\* A rejected submission of each kind is seen with an order on file: this
\* one was blocked by a Critical alert after an earlier one had succeeded.
C23_Witness ==
  /\ req.op = "create_order"
  /\ response.code = 400
  /\ response.message = BlockedMessage
  /\ Len(orders) = 1

\* C24 as claimed: a well-formed submission for (P, I) carries a
\* DUPLICATE_ORDER alert exactly when some order for (P, I) is Active at that
\* moment.
C24_DuplicateTracksActive_Original ==
  [][ IsSubmission(req')
      => (HasAlert(response'.alerts, "DUPLICATE_ORDER", "Warning")
            <=> ExistsActive(orders, req'.patient_id, req'.data.orderable_item_id))
    ]_vars

\* C24 as amended: the same for every submission that is answered with its
\* alerts (created or blocked); a submission whose commit fails is answered
\* 500 without alerts.
C24_DuplicateTracksActive ==
  [][ IsSubmission(req')
      => IF response'.code = 500
         THEN response'.alerts = <<>> /\ orders' = orders
         ELSE (CountType(response'.alerts, "DUPLICATE_ORDER") = 1
                 <=> ExistsActive(orders, req'.patient_id, req'.data.orderable_item_id))
              /\ CountType(response'.alerts, "DUPLICATE_ORDER") <= 1
    ]_vars

\* A submission for (P, I) was created without a duplicate alert although an
\* earlier order for (P, I) had been signed and then discontinued.
C24_Witness ==
  /\ IsSubmission(req)
  /\ response.code = 201
  /\ CountType(response.alerts, "DUPLICATE_ORDER") = 0
  /\ \E k \in 1..Len(orders) :
       /\ k # response.order_id
       /\ orders[k].patient_id = req.patient_id
       /\ orders[k].orderable_item_id = req.data.orderable_item_id
       /\ orders[k].status = "Discontinued"
       /\ orders[k].signed_at # None

Unset(o, fields) == \A f \in fields : o[f] = None

IsSet(o, fields) == \A f \in fields : o[f] # None

\* C27: in every state a PendingSignature order has its signing and
\* discontinuation fields unset; an Active order has signed_by and signed_at
\* set and the discontinuation fields unset; a Discontinued order has
\* discontinued_by, discontinued_at and a non-empty reason set.  A
\* discontinuation leaves the signing fields as they were, so a Discontinued
\* order has signed_by set exactly when it was Active before.
C27_BookkeepingMatchesStatus ==
  /\ [](\A k \in 1..Len(orders) :
          LET o == orders[k]
          IN /\ o.status = "PendingSignature"
                => Unset(o, {"signed_by_user_id", "signed_at", "discontinued_by_user_id",
                             "discontinued_at", "discontinuation_reason"})
             /\ o.status = "Active"
                => /\ IsSet(o, {"signed_by_user_id", "signed_at"})
                   /\ Unset(o, {"discontinued_by_user_id", "discontinued_at",
                                "discontinuation_reason"})
             /\ o.status = "Discontinued"
                => /\ IsSet(o, {"discontinued_by_user_id", "discontinued_at",
                                "discontinuation_reason"})
                   /\ o.discontinuation_reason # "")
  /\ [][ \A k \in 1..Len(orders) :
           (orders'[k].status = "Discontinued" /\ orders[k].status # "Discontinued")
             => /\ orders'[k].signed_by_user_id = orders[k].signed_by_user_id
                /\ orders'[k].signed_at = orders[k].signed_at
                /\ (orders'[k].signed_by_user_id # None <=> orders[k].status = "Active")
       ]_vars

\* One order was signed and then discontinued without a reason, the other
\* was discontinued with a reason while it awaited signature.
C27_Witness ==
  /\ Len(orders) = 2
  /\ \E j, k \in 1..Len(orders) :
       /\ orders[j].status = "Discontinued" /\ orders[j].signed_by_user_id # None
       /\ orders[j].discontinuation_reason = "Discontinued by physician order."
       /\ orders[k].status = "Discontinued" /\ orders[k].signed_by_user_id = None
       /\ orders[k].discontinuation_reason = "r1"

StatusRank(status) ==
  CASE status = "PendingSignature" -> 0
    [] status = "Active" -> 1
    [] OTHER -> 2

\* The sign and discontinue requests the stored orders can still accept:
\* two for an order awaiting signature, one for an Active order.
Remaining(os) ==
  2 * Cardinality({k \in 1..Len(os) : os[k].status = "PendingSignature"})
    + Cardinality({k \in 1..Len(os) : os[k].status = "Active"})

\* C28: no step lowers the rank of an order under PendingSignature < Active
\* < Discontinued; a sign request succeeds only on an order that awaits
\* signature and a discontinue request only on one that is not Discontinued,
\* and each success lowers the number of requests the stored orders can still
\* accept, which is never negative: over a fixed set of orders only finitely
\* many succeed.
C28_StatusMovesForward ==
  [][ /\ \A k \in 1..Len(orders) :
           StatusRank(orders'[k].status) >= StatusRank(orders[k].status)
      /\ (req'.op = "sign_order" /\ response'.code = 200)
         => /\ orders[req'.order_id].status = "PendingSignature"
            /\ orders'[req'.order_id].status = "Active"
            /\ Remaining(orders') < Remaining(orders)
      /\ (req'.op = "discontinue_order" /\ response'.code = 200)
         => /\ orders[req'.order_id].status # "Discontinued"
            /\ orders'[req'.order_id].status = "Discontinued"
            /\ Remaining(orders') < Remaining(orders)
      /\ Remaining(orders') >= 0
    ]_vars

\* Every order has run through its lifecycle: the last request discontinued
\* an order that had been signed, and no stored order accepts another one.
C28_Witness ==
  /\ req.op = "discontinue_order" /\ response.code = 200
  /\ orders[req.order_id].signed_at # None
  /\ Len(orders) = MaxOrders
  /\ Remaining(orders) = 0

\* C29: the alerts of the duplicate, interaction and dose-range checks are
\* all Warnings, and the allergy check yields none for an item that is not a
\* Medication; a well-formed submission for such an item is never blocked: it
\* is created (or fails on commit) with no Critical alert, and the service
\* returns its order.
C29_OnlyAllergyIsCritical ==
  [][ /\ ValidEval(req')
         => LET pid  == req'.data.patient_id
                item == Catalog[req'.data.orderable_item_id]
                d == _check_for_duplicate_orders(orders, pid, item).alerts
                i == _check_drug_drug_interactions(rules, meds, pid, item).alerts
                r == _check_dose_range(item, EvalDetails(req')).alerts
            IN /\ ~HasSeverity(d \o i \o r, "Critical")
               /\ item.item_type # "Medication"
                    => _check_for_allergies(allergies, pid, item).alerts = <<>>
      /\ (IsSubmission(req')
            /\ Catalog[req'.data.orderable_item_id].item_type # "Medication")
         => /\ response'.code \in {201, 500}
            /\ ~HasSeverity(response'.alerts, "Critical")
      /\ (req'.op = "create_new_order" /\ IsDict(req'.data)
            /\ "orderable_item_id" \in DOMAIN req'.data
            /\ req'.data.orderable_item_id \in ItemIds
            /\ Catalog[req'.data.orderable_item_id].item_type # "Medication")
         => /\ ~svc'.raised
            /\ svc'.status_code # 400
            /\ svc'.order # <<>>
    ]_vars

\* A LabTest was ordered again for a patient with an active allergy record
\* whose allergen is the test's name and with an Active order for the test
\* on file: created, with the duplicate Warning.
C29_Witness ==
  /\ IsSubmission(req)
  /\ Catalog[req.data.orderable_item_id].item_type = "LabTest"
  /\ \E a \in ActiveAllergies(allergies, req.patient_id) :
       lower(a.allergen_name) = lower(Catalog[req.data.orderable_item_id].name)
  /\ response.code = 201
  /\ HasAlert(response.alerts, "DUPLICATE_ORDER", "Warning")

\* The patient's medications that are Active and of type INPATIENT_ACTIVE.
ActiveInpatient(ms, pid) ==
  {m \in ms : m.patient_id = pid /\ m.status = "Active" /\ m.type = "INPATIENT_ACTIVE"}

\* C25: the interaction check of an evaluation yields what it yields for the
\* patient's Active INPATIENT_ACTIVE medications alone, so a medication that
\* is Held or Discontinued, or a home or discharge medication, contributes
\* nothing; with no such medication on the chart (the last one having been
\* updated away from Active) the check yields no alert.
C25_OnlyActiveInpatientMeds ==
  ValidEval(req)
  => LET pid  == req.data.patient_id
         item == Catalog[req.data.orderable_item_id]
         out  == _check_drug_drug_interactions(rules, meds, pid, item)
     IN /\ out = _check_drug_drug_interactions(rules, ActiveInpatient(meds, pid), pid, item)
        /\ ActiveInpatient(meds, pid) = {} => out.alerts = <<>>
        /\ CountType(response.alerts, "DRUG_INTERACTION") <= Len(out.alerts)

\* An item was evaluated whose interaction pair the rule declares with the
\* patient's inpatient medication, after that medication was put on hold:
\* with the medication Active the check yields the alert, as it stands none.
C25_Witness ==
  /\ ValidEval(req)
  /\ LET pid  == req.data.patient_id
         item == Catalog[req.data.orderable_item_id]
         held == {m \in meds : m.patient_id = pid /\ m.type = "INPATIENT_ACTIVE"
                                 /\ m.status = "Held"}
     IN /\ held # {}
        /\ ActiveInpatient(meds, pid) = {}
        /\ _check_drug_drug_interactions(rules, meds, pid, item).alerts = <<>>
        /\ Len(_check_drug_drug_interactions(rules,
                  {[m EXCEPT !.status = "Active"] : m \in held}, pid, item).alerts) = 1

\* The orders table with every row of another patient blanked (row ids, the
\* positions, are kept).
OrdersOf(os, pid) ==
  [k \in 1..Len(os) |->
     IF os[k].patient_id = pid THEN os[k]
     ELSE [os[k] EXCEPT !.patient_id = None, !.orderable_item_id = None,
                        !.status = None]]

\* The rows of one patient with their row ids.
OwnOrders(os, pid) == {<<k, os[k]>> : k \in {j \in 1..Len(os) : os[j].patient_id = pid}}

\* The chart records of one patient.
RecordsOf(S, pid) == {x \in S : x.patient_id = pid}

\* The patient whose order a sign or discontinue request names, or the
\* patient a submission is for.
PatientOfRequest(r, os) ==
  IF r.op = "create_order" THEN r.patient_id
  ELSE IF r.op \in {"sign_order", "discontinue_order"} /\ r.order_id \in 1..Len(os)
  THEN os[r.order_id].patient_id
  ELSE None

\* C30: what the engine's checks and the route's inline checks yield for a
\* patient P is what they yield when the orders, allergy records and
\* medications of every other patient are removed; an evaluation and a
\* submission for P are answered from P's data alone; and a submission, a
\* signature or a discontinuation for another patient leaves the orders,
\* allergy records and medications of P, the rules, and the duplicate alert
\* of P for every item as they were.
C30_PatientIsolation ==
  [][ /\ ValidEval(req')
         => LET pid  == req'.data.patient_id
                item == Catalog[req'.data.orderable_item_id]
                d    == EvalDetails(req')
            IN /\ FourChecks(orders, allergies, rules, meds, pid, item, d)
                    = FourChecks(OrdersOf(orders, pid), RecordsOf(allergies, pid), rules,
                                 RecordsOf(meds, pid), pid, item, d)
               /\ response'.code = 200
                    => response'.alerts
                         = execute_cds_checks(OrdersOf(orders, pid),
                                              RecordsOf(allergies, pid), rules,
                                              RecordsOf(meds, pid), pid, item, d).alerts
      /\ (IsSubmission(req') /\ response'.code # 500)
         => LET pid  == req'.patient_id
                item == Catalog[req'.data.orderable_item_id]
            IN /\ response'.alerts
                    = RouteAlerts(OrdersOf(orders, pid), RecordsOf(allergies, pid), pid, item)
               /\ response'.code
                    = (IF HasCritical(RouteAlerts(OrdersOf(orders, pid),
                                                  RecordsOf(allergies, pid), pid, item))
                       THEN 400 ELSE 201)
      /\ \A pid \in Patients :
           (PatientOfRequest(req', orders) \notin {pid, None})
             => /\ OwnOrders(orders', pid) = OwnOrders(orders, pid)
                /\ RecordsOf(allergies', pid) = RecordsOf(allergies, pid)
                /\ RecordsOf(meds', pid) = RecordsOf(meds, pid)
                /\ rules' = rules
                /\ \A i \in ItemIds :
                     _check_for_duplicate_orders(orders', pid, Catalog[i])
                       = _check_for_duplicate_orders(orders, pid, Catalog[i])
    ]_vars

\* An order of p1 for an item was created with no alert while p2 had an
\* Active order for the same item, an active allergy record matching it and
\* an inpatient medication of its own.
C30_Witness ==
  /\ IsSubmission(req)
  /\ response.code = 201
  /\ response.alerts = <<>>
  /\ \E k \in 1..Len(orders) :
       /\ orders[k].patient_id \notin {req.patient_id, None}
       /\ orders[k].orderable_item_id = req.data.orderable_item_id
       /\ orders[k].status = "Active"
  /\ \E a \in allergies :
       /\ a.patient_id # req.patient_id /\ a.is_active
       /\ EngineAllergyMatch(a, Catalog[req.data.orderable_item_id])
  /\ \E m \in meds : m.patient_id # req.patient_id /\ m.type = "INPATIENT_ACTIVE"

\* C22: no submission waits for or is refused because of another one: a
\* worker's reads see the committed rows only, and when storage accepts the
\* commit the submission appends its PendingSignature order and answers 201,
\* whatever rows for the same patient and item the table holds by then.
C22_DuplicateRaceTolerated ==
  [][ \A w \in Workers :
        /\ (txn[w].pc = "idle" /\ txn'[w].op = "create_order"
              /\ txn'[w].pc = "commit")
           => /\ txn'[w].seen = Len(orders)
              /\ txn'[w].alerts
                   = RouteAlerts(orders, allergies, txn'[w].patient_id,
                                 Catalog[txn'[w].data.orderable_item_id])
        /\ (txn[w].op = "create_order" /\ txn[w].pc = "commit"
              /\ txn'[w].pc = "done" /\ txn'[w].storage_ok)
           => /\ txn'[w].code = 201
              /\ Len(orders') = Len(orders) + 1
              /\ orders'[Len(orders')].status = "PendingSignature"
              /\ orders'[Len(orders')].patient_id = txn[w].patient_id
              /\ orders'[Len(orders')].orderable_item_id
                   = txn[w].data.orderable_item_id
              /\ SubSeq(orders', 1, Len(orders)) = orders
    ]_vars

\* Two submissions for the same patient and item were served in parallel:
\* both ran their duplicate query on the empty table, both were answered 201
\* without a duplicate alert, and the table holds their two PendingSignature
\* orders.
C22_Witness ==
  /\ \A w \in Workers :
       /\ txn[w].op = "create_order" /\ txn[w].pc = "done" /\ txn[w].code = 201
       /\ txn[w].seen = 0
       /\ txn[w].alerts = <<>>
       /\ txn[w].patient_id = "p1"
       /\ txn[w].data.orderable_item_id = "i3"
  /\ txn["w1"].order_id # txn["w2"].order_id
  /\ Len(orders) = 2
  /\ \A k \in 1..2 :
       /\ orders[k].status = "PendingSignature"
       /\ orders[k].patient_id = "p1"
       /\ orders[k].orderable_item_id = "i3"

\* C26: while a worker holds the success answer of a discontinue request,
\* the order it discontinued is stored as Discontinued.
C26_DiscontinueNotOverwritten ==
  \A w \in Workers :
    (txn[w].op = "discontinue_order" /\ txn[w].pc = "done" /\ txn[w].code = 200)
      => orders[txn[w].order_id].status = "Discontinued"

====
